---- MODULE Spec2Model ----
(***************************************************************************)
(* A model of src/parser.go (package xmlpath): the node store built by     *)
(* ParseDecoder and ParseHTML, and the string-value queries of Node        *)
(* (Bytes, equals, contains, startsWith).                                  *)
(*                                                                         *)
(* Indices are the 0-based indices of the Go code: nodes[i] of the source  *)
(* is nodes[i + 1] here, s[i] is s[i + 1].  A nil pointer is Nil.          *)
(***************************************************************************)
EXTENDS Integers, Sequences, FiniteSets, TLC

VARIABLES
    pc,         \* position in ParseDecoder / ParseHTML
    tokens,     \* the tokens d.Token() has returned so far (the input, recorded)
    nodes,      \* var nodes []Node
    text,       \* var text []byte, the shared buffer
    stack,      \* stack of open StartNodes (indices into nodes)
    downs,      \* the pre-allocated block of child pointers
    downCount,  \* number of slots of downs handed out
    pos,        \* the index of the forward pass, "for pos := range nodes"
    result,     \* what the parse call returned: "none", "ok", "eof", "error", "panic"
    root,       \* the node returned when result = "ok"
    q,          \* the query made on the returned tree, and its answer
    doc,        \* the html.Node tree returned by html.ParseFragment
    n           \* ParseHTML's cursor n (an index into doc, or Nil)

vars == <<pc, tokens, nodes, text, stack, downs, downCount, pos, result, root, q, doc, n>>

-----------------------------------------------------------------------------
(* Bounds of the model. *)

MaxTokens == 4      \* tokens read from the decoder before io.EOF
MaxNeedleLen == 2   \* length of the ASCII candidate strings of a query
MaxDocNodes == 4    \* nodes of the html document tree

(* NodeKind *)
AnyNode == 0
StartNode == 1
EndNode == 2
AttrNode == 3
TextNode == 4
CommentNode == 5
ProcInstNode == 6

Nil == -1

(* Payloads of the tokens.  Bytes are numbers: 97 'a', 98 'b'; 195 169 is *)
(* the UTF-8 encoding of U+00E9 and 195 170 that of U+00EA.               *)
Texts == { <<97>>, <<98, 97>>, <<195, 169>> }
Comments == { <<98>> }
ProcInsts == { <<97>> }
AttrValues == { <<97, 98>> }
AttrLists == { <<>> } \cup { <<v>> : v \in AttrValues }

RECURSIVE SeqsUpTo(_, _)
SeqsUpTo(S, k) ==
    IF k = 0 THEN { <<>> }
    ELSE LET shorter == SeqsUpTo(S, k - 1)
         IN  shorter \cup { Append(t, b) : t \in shorter, b \in S }

(* The candidate strings s of a query. *)
Needles == SeqsUpTo({97, 98}, MaxNeedleLen) \cup { <<195, 169>>, <<195, 170>> }

NoQuery == [op |-> "none", node |-> Nil, s |-> <<>>, ok |-> FALSE, val |-> <<>>]

-----------------------------------------------------------------------------
(* Node values. *)

\* Node{kind: k}: every other field has its zero value
NewNode(k) ==
    [kind |-> k, attr |-> <<>>, off |-> 0, len |-> 0,
     pos |-> 0, end |-> 0, up |-> Nil, dstart |-> 0, dlen |-> 0]

\* Node{kind: AttrNode, attr: v}
NewAttr(v) == [NewNode(AttrNode) EXCEPT !.attr = v]

\* Node{kind: k, text: text[texti : texti+len(t)]}
NewSpan(k, texti, t) == [NewNode(k) EXCEPT !.off = texti, !.len = Len(t)]

\* node.text of nodes[i], read through its span of the shared buffer
TextOf(i) == SubSeq(text, nodes[i + 1].off + 1, nodes[i + 1].off + nodes[i + 1].len)

KindOf(i) == nodes[i + 1].kind

-----------------------------------------------------------------------------
(* ParseDecoder, lines 213-271: one action per token returned by d.Token(). *)
(* The decoder is outside this package: any token may come next.            *)

Token(type, attr, data) == [type |-> type, attr |-> attr, data |-> data]

Reading == pc = "token" /\ Len(tokens) < MaxTokens

\* case xml.EndElement
TokenEndElement ==
    /\ Reading
    /\ tokens' = Append(tokens, Token("EndElement", <<>>, <<>>))
    /\ nodes' = Append(nodes, NewNode(EndNode))
    /\ UNCHANGED <<pc, text, stack, downs, downCount, pos, result, root, q, doc, n>>

\* case xml.StartElement: the StartNode, then one AttrNode per attribute
TokenStartElement ==
    /\ Reading
    /\ \E attrs \in AttrLists :
        /\ tokens' = Append(tokens, Token("StartElement", attrs, <<>>))
        /\ nodes' = Append(nodes, NewNode(StartNode))
                        \o [i \in 1..Len(attrs) |-> NewAttr(attrs[i])]
    /\ UNCHANGED <<pc, text, stack, downs, downCount, pos, result, root, q, doc, n>>

\* case xml.CharData
TokenCharData ==
    /\ Reading
    /\ \E t \in Texts :
        /\ tokens' = Append(tokens, Token("CharData", <<>>, t))
        /\ text' = text \o t
        /\ nodes' = Append(nodes, NewSpan(TextNode, Len(text), t))
    /\ UNCHANGED <<pc, stack, downs, downCount, pos, result, root, q, doc, n>>

\* case xml.Comment
TokenComment ==
    /\ Reading
    /\ \E t \in Comments :
        /\ tokens' = Append(tokens, Token("Comment", <<>>, t))
        /\ text' = text \o t
        /\ nodes' = Append(nodes, NewSpan(CommentNode, Len(text), t))
    /\ UNCHANGED <<pc, stack, downs, downCount, pos, result, root, q, doc, n>>

\* case xml.ProcInst
TokenProcInst ==
    /\ Reading
    /\ \E t \in ProcInsts :
        /\ tokens' = Append(tokens, Token("ProcInst", <<>>, t))
        /\ text' = text \o t
        /\ nodes' = Append(nodes, NewSpan(ProcInstNode, Len(text), t))
    /\ UNCHANGED <<pc, stack, downs, downCount, pos, result, root, q, doc, n>>

\* err != nil and err != io.EOF: return nil, err
TokenError ==
    /\ pc = "token"
    /\ pc' = "done"
    /\ result' = "error"
    /\ UNCHANGED <<tokens, nodes, text, stack, downs, downCount, pos, root, q, doc, n>>

\* The state set up by lines 271-275 (and 389-393): the root is closed, the
\* stack is empty and downs holds len(nodes) nil pointers.
CloseRoot ==
    /\ nodes' = Append(nodes, NewNode(EndNode))
    /\ stack' = <<>>
    /\ downs' = [j \in 1..(Len(nodes) + 1) |-> Nil]
    /\ downCount' = 0
    /\ pos' = 0
    /\ pc' = "build"

\* err == io.EOF: leave the token loop
TokenEOF ==
    /\ pc = "token"
    /\ CloseRoot
    /\ UNCHANGED <<tokens, text, result, root, q, doc, n>>

-----------------------------------------------------------------------------
(* The forward pass, lines 277-316 of ParseDecoder and, word for word,     *)
(* lines 395-434 of ParseHTML: one step per iteration of the loop.         *)

Eligible == {StartNode, TextNode, CommentNode, ProcInstNode}

\* IsDown without the switch on the kind: an AttrNode passes too
IsDownOfAnyKind(ns, node, i) == ns[i + 1].up = node

\* lines 303-305: is ns[i] appended to the down list of node?
IsDown(ns, node, i) == ns[i + 1].up = node /\ ns[i + 1].kind \in Eligible

\* the pointers appended to node.down by the loop of lines 302-310, in order
DownsOf(ns, node) ==
    LET first == ns[node + 1].pos + 1
        count == ns[node + 1].end - first
    IN  SelectSeq([k \in 1..(IF count > 0 THEN count ELSE 0) |-> first + k - 1],
                  LAMBDA i : IsDown(ns, node, i))

\* ClosedEnd one short: the last entry before the EndNode is left out
ClosedEndShort(p) == p - 1

\* line 296: node.end = pos
ClosedEnd(p) == p

\* BumpDownCount without the downCount++
KeepDownCount(count, kids) == count

\* lines 306-307: downCount after the appends of one node
BumpDownCount(count, kids) == count + Len(kids)

\* case StartNode, AttrNode, TextNode, CommentNode, ProcInstNode
Link(p) ==
    LET top == IF Len(stack) > 0 THEN stack[Len(stack)] ELSE Nil
        isStart == KindOf(p) = StartNode
    IN  /\ nodes' = [nodes EXCEPT ![p + 1] =
                        [@ EXCEPT !.pos = p,
                                  !.up = top,
                                  !.end = IF isStart THEN @ ELSE p + 1]]
        /\ stack' = IF isStart THEN Append(stack, p) ELSE stack
        /\ pos' = p + 1
        /\ UNCHANGED <<pc, downs, downCount, result, root>>

\* case EndNode
Close(p) ==
    IF Len(stack) = 0
    THEN \* stack[len(stack)-1] is out of range
         /\ result' = "panic"
         /\ pc' = "done"
         /\ UNCHANGED <<nodes, stack, downs, downCount, pos, root>>
    ELSE LET node == stack[Len(stack)]
             closed == [nodes EXCEPT ![node + 1].end = ClosedEnd(p)]
             rest == SubSeq(stack, 1, Len(stack) - 1)
             kids == DownsOf(closed, node)
         IN  /\ nodes' = [closed EXCEPT ![node + 1].dstart = downCount,
                                        ![node + 1].dlen = Len(kids)]
             /\ downs' = [j \in 1..Len(downs) |->
                            IF downCount < j /\ j <= downCount + Len(kids)
                            THEN kids[j - downCount] ELSE downs[j]]
             /\ downCount' = BumpDownCount(downCount, kids)
             /\ stack' = rest
             /\ IF Len(rest) = 0
                THEN result' = "ok" /\ root' = node /\ pc' = "done" /\ pos' = p
                ELSE pos' = p + 1 /\ UNCHANGED <<pc, result, root>>

ForwardPass ==
    /\ pc = "build"
    /\ pos < Len(nodes)
    /\ IF KindOf(pos) = EndNode THEN Close(pos)
       ELSE IF KindOf(pos) \in Eligible \cup {AttrNode} THEN Link(pos)
       ELSE pos' = pos + 1 /\ UNCHANGED <<pc, nodes, stack, downs, downCount, result, root>>

\* ParseDecoder lines 277-315
BuildStep ==
    /\ doc = <<>>
    /\ ForwardPass
    /\ UNCHANGED <<tokens, text, q, doc, n>>

\* line 316: the loop ran off the end of nodes: return nil, io.EOF
BuildEOF ==
    /\ doc = <<>>
    /\ pc = "build"
    /\ pos = Len(nodes)
    /\ result' = "eof"
    /\ pc' = "done"
    /\ UNCHANGED <<tokens, nodes, text, stack, downs, downCount, pos, root, q, doc, n>>

-----------------------------------------------------------------------------
(* The string value of a node, lines 58-204.  A node is named by its index *)
(* in nodes; s is the candidate string, a sequence of bytes.               *)

\* BytesTakes with the text of comments taken too
BytesTakesComments(i) == KindOf(i) \in {TextNode, CommentNode}

\* lines 86 and 92: does nodes[i] contribute its text to Bytes?
BytesTakes(i) == KindOf(i) = TextNode

\* lines 90-95: the texts of nodes[i..e), appended in order
RECURSIVE Gather(_, _)
Gather(i, e) ==
    IF i >= e THEN <<>>
    ELSE (IF BytesTakes(i) THEN TextOf(i) ELSE <<>>) \o Gather(i + 1, e)

Bytes(i) ==
    IF KindOf(i) = AttrNode THEN nodes[i + 1].attr
    ELSE IF KindOf(i) # StartNode THEN TextOf(i)
    ELSE Gather(nodes[i + 1].pos, nodes[i + 1].end)

String(i) == IF KindOf(i) = AttrNode THEN nodes[i + 1].attr ELSE Bytes(i)

(* "for i := range s" over a string visits the index of the first byte of  *)
(* each UTF-8 sequence; a byte that starts no valid sequence is visited on  *)
(* its own.  RuneWidth is the number of bytes the iteration at i consumes.  *)
InRange(b, lo, hi) == lo <= b /\ b <= hi

RuneSize(b) ==
    IF b < 128 THEN 1
    ELSE IF InRange(b, 194, 223) THEN 2
    ELSE IF InRange(b, 224, 239) THEN 3
    ELSE IF InRange(b, 240, 244) THEN 4
    ELSE 1

AcceptLo(b) == IF b = 224 THEN 160 ELSE IF b = 240 THEN 144 ELSE 128
AcceptHi(b) == IF b = 237 THEN 159 ELSE IF b = 244 THEN 143 ELSE 191

RuneWidth(s, i) ==
    LET b == s[i + 1]
        size == RuneSize(b)
    IN  IF size = 1 THEN 1
        ELSE IF i + size > Len(s) THEN 1
        ELSE IF ~InRange(s[i + 2], AcceptLo(b), AcceptHi(b)) THEN 1
        ELSE IF \E k \in 3..size : ~InRange(s[i + k], 128, 191) THEN 1
        ELSE size

\* the indices i that "for i := range s" visits, from index i on
RECURSIVE RangeIndices(_, _)
RangeIndices(s, i) ==
    IF i >= Len(s) THEN {} ELSE {i} \cup RangeIndices(s, i + RuneWidth(s, i))

\* lines 119-127: one fragment of equals; the new si, or Nil for "return false"
RECURSIVE EqualsFragment(_, _, _, _)
EqualsFragment(t, k, s, si) ==
    IF k >= Len(t) THEN si
    ELSE IF si >= Len(s) THEN Nil
    ELSE IF s[si + 1] # t[k + 1] THEN Nil
    ELSE EqualsFragment(t, k + 1, s, si + 1)

\* lines 117-130
RECURSIVE EqualsWalk(_, _, _, _)
EqualsWalk(i, e, s, si) ==
    IF i >= e THEN si = Len(s)
    ELSE IF KindOf(i) = TextNode
         THEN LET r == EqualsFragment(TextOf(i), 0, s, si)
              IN  r # Nil /\ EqualsWalk(i + 1, e, s, r)
         ELSE EqualsWalk(i + 1, e, s, si)

\* lines 106-114
EqualsOwnText(t, s) ==
    /\ Len(s) = Len(t)
    /\ \A i \in RangeIndices(s, 0) : s[i + 1] = t[i + 1]

equals(i, s) ==
    IF KindOf(i) = AttrNode THEN s = nodes[i + 1].attr
    ELSE IF KindOf(i) # StartNode THEN EqualsOwnText(TextOf(i), s)
    ELSE EqualsWalk(nodes[i + 1].pos, nodes[i + 1].end, s, 0)

\* strings.Contains(v, s) and strings.HasPrefix(v, s)
StringsContains(v, s) ==
    \E k \in 0..(Len(v) - Len(s)) : SubSeq(v, k + 1, k + Len(s)) = s
StringsHasPrefix(v, s) == Len(v) >= Len(s) /\ SubSeq(v, 1, Len(s)) = s

\* lines 152-157: the rest of the fragment; the new si, or Nil for "continue NextTry"
RECURSIVE ExtendInFragment(_, _, _, _)
ExtendInFragment(t, ci, s, si) ==
    IF ci < Len(t) /\ si < Len(s)
    THEN IF s[si + 1] # t[ci + 1] THEN Nil
         ELSE ExtendInFragment(t, ci + 1, s, si + 1)
    ELSE si

\* lines 163-170: one later fragment; the new si, Len(s) for "return true",
\* or Nil for "continue NextTry"
RECURSIVE ExtendFragment(_, _, _, _)
ExtendFragment(t, k, s, si) ==
    IF k >= Len(t) THEN si
    ELSE IF s[si + 1] # t[k + 1] THEN Nil
    ELSE IF si + 1 = Len(s) THEN Len(s)
    ELSE ExtendFragment(t, k + 1, s, si + 1)

\* ExtendAcross giving up at the first node that is no TextNode
RECURSIVE ExtendAcrossAdjacent(_, _, _, _)
ExtendAcrossAdjacent(j, e, s, si) ==
    IF j >= e THEN FALSE
    ELSE IF KindOf(j) = TextNode
         THEN LET r == ExtendFragment(TextOf(j), 0, s, si)
              IN  r # Nil /\ (r = Len(s) \/ ExtendAcrossAdjacent(j + 1, e, s, r))
         ELSE FALSE

\* lines 161-173: the later fragments nodes[j..e); TRUE for "return true"
RECURSIVE ExtendAcross(_, _, _, _)
ExtendAcross(j, e, s, si) ==
    IF j >= e THEN FALSE
    ELSE IF KindOf(j) = TextNode
         THEN LET r == ExtendFragment(TextOf(j), 0, s, si)
              IN  r # Nil /\ (r = Len(s) \/ ExtendAcross(j + 1, e, s, r))
         ELSE ExtendAcross(j + 1, e, s, si)

\* lines 147-174: the attempt that starts at byte ci of the text of nodes[i]
TryAt(i, e, ci, s) ==
    LET t == TextOf(i)
    IN  /\ t[ci + 1] = s[1]
        /\ LET si == ExtendInFragment(t, ci + 1, s, 1)
           IN  /\ si # Nil
               /\ (si = Len(s) \/ ExtendAcross(i + 1, e, s, si))

\* lines 135-178.  No attempt leaves anything behind for the next one, so the
\* loops return true exactly when some attempt does.
contains(i, s) ==
    IF Len(s) = 0 THEN TRUE
    ELSE IF KindOf(i) = AttrNode THEN StringsContains(nodes[i + 1].attr, s)
    ELSE \E j \in nodes[i + 1].pos..(nodes[i + 1].end - 1) :
            /\ KindOf(j) = TextNode
            /\ \E ci \in 0..(Len(TextOf(j)) - 1) : TryAt(j, nodes[i + 1].end, ci, s)

\* lines 193-201: one fragment of startsWith; the new si (the break keeps
\* si), or Len(s) for "return true"
RECURSIVE PrefixFragment(_, _, _, _)
PrefixFragment(t, k, s, si) ==
    IF k >= Len(t) THEN si
    ELSE IF t[k + 1] # s[si + 1] THEN si
    ELSE IF si + 1 = Len(s) THEN Len(s)
    ELSE PrefixFragment(t, k + 1, s, si + 1)

\* lines 189-203
RECURSIVE PrefixWalk(_, _, _, _)
PrefixWalk(i, e, s, si) ==
    IF i >= e THEN FALSE
    ELSE IF KindOf(i) # TextNode THEN PrefixWalk(i + 1, e, s, si)
    ELSE LET r == PrefixFragment(TextOf(i), 0, s, si)
         IN  r = Len(s) \/ PrefixWalk(i + 1, e, s, r)

startsWith(i, s) ==
    IF Len(s) = 0 THEN TRUE
    ELSE IF KindOf(i) = AttrNode THEN StringsHasPrefix(nodes[i + 1].attr, s)
    ELSE PrefixWalk(nodes[i + 1].pos, nodes[i + 1].end, s, 0)

(* The queries: the parse returned a tree, and the caller asks one question *)
(* of one of its nodes.  The nodes of the tree are those of the root's      *)
(* range; an EndNode is no node of the tree.                                *)
TreeNodes ==
    IF result = "ok"
    THEN { i \in nodes[root + 1].pos..(nodes[root + 1].end - 1) : KindOf(i) # EndNode }
    ELSE {}

Asking == pc = "done" /\ result = "ok" /\ q = NoQuery

QueryString ==
    /\ Asking
    /\ \E i \in TreeNodes :
        q' = [op |-> "String", node |-> i, s |-> <<>>, ok |-> TRUE, val |-> String(i)]
    /\ UNCHANGED <<pc, tokens, nodes, text, stack, downs, downCount, pos, result, root, doc, n>>

QueryEquals ==
    /\ Asking
    /\ \E i \in TreeNodes, s \in Needles :
        q' = [op |-> "equals", node |-> i, s |-> s, ok |-> equals(i, s), val |-> <<>>]
    /\ UNCHANGED <<pc, tokens, nodes, text, stack, downs, downCount, pos, result, root, doc, n>>

QueryContains ==
    /\ Asking
    /\ \E i \in TreeNodes, s \in Needles :
        q' = [op |-> "contains", node |-> i, s |-> s, ok |-> contains(i, s), val |-> <<>>]
    /\ UNCHANGED <<pc, tokens, nodes, text, stack, downs, downCount, pos, result, root, doc, n>>

QueryStartsWith ==
    /\ Asking
    /\ \E i \in TreeNodes, s \in Needles :
        q' = [op |-> "startsWith", node |-> i, s |-> s, ok |-> startsWith(i, s), val |-> <<>>]
    /\ UNCHANGED <<pc, tokens, nodes, text, stack, downs, downCount, pos, result, root, doc, n>>

-----------------------------------------------------------------------------
Init ==
    /\ pc = "token"
    /\ tokens = <<>>
    /\ nodes = <<NewNode(StartNode)>>       \* line 218: the root node
    /\ text = <<>>
    /\ stack = <<>>
    /\ downs = <<>>
    /\ downCount = 0
    /\ pos = 0
    /\ result = "none"
    /\ root = Nil
    /\ q = NoQuery
    /\ doc = <<>>
    /\ n = Nil

Next ==
    \/ TokenEndElement
    \/ TokenStartElement
    \/ TokenCharData
    \/ TokenComment
    \/ TokenProcInst
    \/ TokenError
    \/ TokenEOF
    \/ BuildStep
    \/ BuildEOF
    \/ QueryString

Spec == Init /\ [][Next]_vars

\* The same parse, followed by one of the allocation-free matchers.
NextMatch ==
    \/ TokenEndElement
    \/ TokenStartElement
    \/ TokenCharData
    \/ TokenComment
    \/ TokenProcInst
    \/ TokenError
    \/ TokenEOF
    \/ BuildStep
    \/ BuildEOF
    \/ QueryEquals
    \/ QueryContains
    \/ QueryStartsWith

SpecMatch == Init /\ [][NextMatch]_vars

-----------------------------------------------------------------------------
(* ParseHTML, lines 326-435.  html.ParseFragment has returned ns, and doc   *)
(* is the tree of ns[0]: doc[i] is an html.Node, its pointers are indices  *)
(* into doc or Nil.  ns[0] was removed from its parent, so it has no       *)
(* Parent and no NextSibling.                                               *)

HtmlData == { <<97>> }
HtmlComments == { <<98>> }

Min(S) == CHOOSE x \in S : \A y \in S : x <= y

\* the tree with k nodes given by the parent, type, attributes and data of
\* each node; the children of a node are in the order of their indices
DocOf(k, par, typ, att, dat) ==
    [i \in 1..k |->
        LET kids == { j \in 1..k : par[j] = i }
            later == { j \in 1..k : j > i /\ par[j] = par[i] }
        IN  [Type |-> typ[i],
             Parent |-> par[i],
             FirstChild |-> IF kids = {} THEN Nil ELSE Min(kids),
             NextSibling |-> IF later = {} THEN Nil ELSE Min(later),
             Attr |-> att[i],
             Data |-> dat[i]]]

\* what goes with a node of type t: Attr for an Element, Data for a Text or
\* a Comment
AttrsFor(t) == IF t = "Element" THEN AttrLists ELSE { <<>> }
DataFor(t) ==
    IF t = "Text" THEN HtmlData ELSE IF t = "Comment" THEN HtmlComments ELSE { <<>> }

\* only the root is a Document, and only a Document and an Element have
\* children
Parents(k) ==
    { f \in [1..k -> {Nil} \cup (1..k)] :
        /\ f[1] = Nil
        /\ \A i \in 2..k : f[i] # Nil /\ f[i] < i }
Types(k, par) ==
    { t \in [1..k -> {"Document", "Element", "Text", "Comment"}] :
        \A i \in 1..k :
            /\ t[i] = "Document" => i = 1
            /\ (\E j \in 1..k : par[j] = i) => t[i] \in {"Document", "Element"} }
Attrs(k, typ) ==
    { f \in [1..k -> AttrLists] : \A i \in 1..k : f[i] \in AttrsFor(typ[i]) }
Datas(k, typ) ==
    { f \in [1..k -> HtmlData \cup HtmlComments \cup { <<>> }] :
        \A i \in 1..k : f[i] \in DataFor(typ[i]) }

DocsOfSize(k) ==
    UNION { UNION { { DocOf(k, par, typ, att, dat) :
                        att \in Attrs(k, typ), dat \in Datas(k, typ) } :
                    typ \in Types(k, par) } :
            par \in Parents(k) }

DocTrees == UNION { DocsOfSize(k) : k \in 1..MaxDocNodes }

\* lines 341-369: the nodes appended for the html.Node h
Emitted(h) ==
    IF h.Type = "Element"
    THEN <<NewNode(StartNode)>> \o [i \in 1..Len(h.Attr) |-> NewAttr(h.Attr[i])]
    ELSE IF h.Type = "Text" THEN <<NewSpan(TextNode, Len(text), h.Data)>>
    ELSE IF h.Type = "Comment" THEN <<NewSpan(CommentNode, Len(text), h.Data)>>
    ELSE <<>>

\* lines 340-374: the switch on n.Type, then down to the first child
Visit ==
    /\ pc = "walk"
    /\ n # Nil
    /\ nodes' = nodes \o Emitted(doc[n])
    /\ text' = IF doc[n].Type \in {"Text", "Comment"} THEN text \o doc[n].Data ELSE text
    /\ IF doc[n].FirstChild # Nil
       THEN n' = doc[n].FirstChild /\ pc' = pc
       ELSE n' = n /\ pc' = "climb"
    /\ UNCHANGED <<tokens, stack, downs, downCount, pos, result, root, q, doc>>

\* Climb with the EndNode appended only on the way to a sibling
ClimbEndsBeforeSibling ==
    /\ pc = "climb"
    /\ n # Nil
    /\ nodes' = IF doc[n].Type = "Element" /\ doc[n].NextSibling # Nil
                THEN Append(nodes, NewNode(EndNode)) ELSE nodes
    /\ IF doc[n].NextSibling # Nil
       THEN n' = doc[n].NextSibling /\ pc' = "walk"
       ELSE n' = doc[n].Parent /\ pc' = pc
    /\ UNCHANGED <<tokens, text, stack, downs, downCount, pos, result, root, q, doc>>

\* lines 376-385: one iteration of the inner loop
Climb ==
    /\ pc = "climb"
    /\ n # Nil
    /\ nodes' = IF doc[n].Type = "Element" THEN Append(nodes, NewNode(EndNode)) ELSE nodes
    /\ IF doc[n].NextSibling # Nil
       THEN n' = doc[n].NextSibling /\ pc' = "walk"
       ELSE n' = doc[n].Parent /\ pc' = pc
    /\ UNCHANGED <<tokens, text, stack, downs, downCount, pos, result, root, q, doc>>

\* n == nil ends both loops; lines 388-393
HtmlCloseRoot ==
    /\ pc \in {"walk", "climb"}
    /\ n = Nil
    /\ CloseRoot
    /\ UNCHANGED <<tokens, text, result, root, q, doc, n>>

\* lines 395-433
HtmlBuildStep ==
    /\ doc # <<>>
    /\ ForwardPass
    /\ UNCHANGED <<tokens, text, q, doc, n>>

\* The return of line 434 needs a Start that no End closes; the walk leaves
\* none (C10), so no step of this specification takes it.

InitHTML ==
    /\ pc = "walk"
    /\ doc \in DocTrees
    /\ n = 1                                \* line 335: n := ns[0]
    /\ tokens = <<>>
    /\ nodes = <<NewNode(StartNode)>>       \* line 338: the root node
    /\ text = <<>>
    /\ stack = <<>>
    /\ downs = <<>>
    /\ downCount = 0
    /\ pos = 0
    /\ result = "none"
    /\ root = Nil
    /\ q = NoQuery

NextHTML ==
    \/ Visit
    \/ Climb
    \/ HtmlCloseRoot
    \/ HtmlBuildStep

\* ParseHTML runs on its own, with nothing to wait for: it takes its next
\* step whenever it has one.
SpecHTML == InitHTML /\ [][NextHTML]_vars /\ WF_vars(NextHTML)

-----------------------------------------------------------------------------
(* What the claims speak of, read off the event sequence and the tree.     *)

\* s is a prefix of v / s occurs in v, byte by byte
IsPrefixOf(s, v) == Len(s) <= Len(v) /\ \A k \in 1..Len(s) : v[k] = s[k]
IsSubstringOf(s, v) ==
    \E at \in 0..(Len(v) - Len(s)) : \A k \in 1..Len(s) : v[at + k] = s[k]

\* the number of Start events minus the number of End events among the
\* first k events
Depth(k) ==
    Cardinality({ i \in 1..k : nodes[i].kind = StartNode })
        - Cardinality({ i \in 1..k : nodes[i].kind = EndNode })

\* the open elements run out at the last event, the End of the synthetic
\* root, and not before
Balanced ==
    /\ pc \in {"build", "done"}
    /\ Depth(Len(nodes)) = 0
    /\ \A k \in 1..(Len(nodes) - 1) : Depth(k) > 0

Built == pc = "done" /\ result = "ok" /\ Balanced

Indices == 0..(Len(nodes) - 1)
Starts == { i \in Indices : KindOf(i) = StartNode }

\* the End event that closes the Start event at index i
MatchingEnd(i) ==
    CHOOSE e \in Indices :
        /\ e > i
        /\ KindOf(e) = EndNode
        /\ Depth(e + 1) = Depth(i)
        /\ \A m \in (i + 1)..(e - 1) : Depth(m + 1) > Depth(i)

\* the Start event that immediately encloses the event at index j
Enclosing(j) ==
    LET open == { i \in Starts : i < j /\ MatchingEnd(i) > j }
    IN  IF open = {} THEN Nil ELSE CHOOSE i \in open : \A k \in open : k <= i

\* the down list of node i, read from the block
Down(i) == SubSeq(downs, nodes[i + 1].dstart + 1, nodes[i + 1].dstart + nodes[i + 1].dlen)

\* the payloads of the CharData tokens, in order
RECURSIVE CharDataOf(_)
CharDataOf(ts) ==
    IF ts = <<>> THEN <<>>
    ELSE (IF Head(ts).type = "CharData" THEN Head(ts).data ELSE <<>>) \o CharDataOf(Tail(ts))

\* the half-open range of node i as a set of indices
Range(i) == nodes[i + 1].pos..(nodes[i + 1].end - 1)

\* a is an ancestor of d by the up pointers
RECURSIVE IsAncestor(_, _)
IsAncestor(a, d) ==
    LET u == nodes[d + 1].up
    IN  u # Nil /\ (u = a \/ IsAncestor(a, u))

\* the Start nodes the forward pass has closed
Closed == { i \in Starts : nodes[i + 1].end > 0 }

-----------------------------------------------------------------------------
(* The claims. *)

\* C1: for every node of the tree and every candidate s, startsWith(s) is
\* true exactly when s is a prefix of the node's materialized string value.
C1_StartsWithIsPrefix ==
    q.op = "startsWith" => (q.ok <=> IsPrefixOf(q.s, String(q.node)))

\* C2: for every node of the tree and every candidate s, contains(s) is true
\* exactly when s occurs in the node's materialized string value.
C2_ContainsIsSubstring ==
    q.op = "contains" => (q.ok <=> IsSubstringOf(q.s, String(q.node)))

\* C3: for every node of the tree and every candidate s, equals(s) is true
\* exactly when s is byte for byte the node's materialized string value.
C3_EqualsIsEquality ==
    q.op = "equals" => (q.ok <=> (q.s = String(q.node)))

\* C4: the parse returns a root exactly when the open elements run out at the
\* last event, the End of the synthetic root; then the root spans every event.
C4_SucceedsIffClosedAtLast ==
    (pc = "done" /\ result # "error") =>
        /\ (result = "ok") <=> Balanced
        /\ result = "ok" => (root = 0 /\ nodes[1].end = Len(nodes) - 1)

\* C5: in a tree built from a balanced sequence the down list of every Start
\* node is the list of the Start, Text, Comment and ProcInst nodes it
\* immediately encloses, in document order; each has the node as its up, and
\* none is an Attr.
C5_ChildrenAreEnclosed ==
    Built =>
        \A i \in Starts :
            /\ Down(i) = SelectSeq([k \in 1..Len(nodes) |-> k - 1],
                                   LAMBDA j : /\ KindOf(j) \in Eligible
                                              /\ Enclosing(j) = i)
            /\ \A k \in 1..Len(Down(i)) :
                /\ nodes[Down(i)[k] + 1].up = i
                /\ KindOf(Down(i)[k]) # AttrNode

\* C6: the root of a tree built from a balanced sequence is a Start node and
\* its string value is the payloads of the CharData tokens, in order.
C6_RootValueIsAllText ==
    (q.op = "String" /\ q.node = root /\ Balanced) =>
        /\ KindOf(root) = StartNode
        /\ q.val = CharDataOf(tokens)

C6_Witness ==
    /\ q.op = "String" /\ q.node = root /\ Balanced
    /\ \E k \in 1..Len(tokens) : tokens[k].type \in {"Comment", "ProcInst"}
    /\ \E k \in 1..Len(tokens) : tokens[k].type = "StartElement" /\ tokens[k].attr # <<>>
    /\ Cardinality({ k \in 1..Len(tokens) : tokens[k].type = "CharData" }) >= 1
    /\ Len(q.val) >= 1

\* C7: contains(s) of a Start node is true whenever the non-empty s occurs in
\* the concatenation of the node's Text fragments, also across fragments and
\* after abandoned attempts.
C7_ContainsAcrossFragments ==
    (/\ q.op = "contains"
     /\ KindOf(q.node) = StartNode
     /\ q.s # <<>>
     /\ IsSubstringOf(q.s, String(q.node))) => q.ok

\* s lies in no single Text fragment of the node, two of the fragments are
\* apart in the store, and the attempt at the first byte of the value fails
C7_Witness ==
    /\ q.op = "contains" /\ q.ok
    /\ KindOf(q.node) = StartNode
    /\ Len(q.s) >= 2
    /\ \A j \in Range(q.node) : KindOf(j) = TextNode => ~IsSubstringOf(q.s, TextOf(j))
    /\ \E j, k \in Range(q.node) :
        /\ KindOf(j) = TextNode /\ KindOf(k) = TextNode /\ j + 1 < k
        /\ \A m \in (j + 1)..(k - 1) : KindOf(m) # TextNode
    /\ String(q.node)[1] = q.s[1]
    /\ ~IsPrefixOf(q.s, String(q.node))

\* C8: in a tree built from a balanced sequence every node that is no Start
\* has the range [pos, pos+1), the range of a Start node strictly contains
\* the range of each descendant, and the ranges of two siblings are disjoint.
C8_RangesNest ==
    Built =>
        LET tree == { i \in Indices : KindOf(i) # EndNode }
        IN  /\ \A i \in tree \ Starts : nodes[i + 1].pos = i /\ nodes[i + 1].end = i + 1
            /\ \A a \in Starts, d \in tree :
                IsAncestor(a, d) => (Range(d) \subseteq Range(a) /\ Range(d) # Range(a))
            /\ \A a, b \in tree :
                (a # b /\ nodes[a + 1].up = nodes[b + 1].up) => Range(a) \cap Range(b) = {}

C8_Witness ==
    /\ Built
    /\ \E a, b, c \in Indices :
        /\ KindOf(a) = StartNode /\ a # 0
        /\ nodes[b + 1].up = a /\ KindOf(b) # EndNode
        /\ nodes[c + 1].up = 0 /\ KindOf(c) # EndNode /\ c > a

\* C9: during the forward pass the down lists of the closed Start nodes are
\* disjoint parts of the block, each still holds what was appended to it,
\* the slots in use are the first downCount slots, and there are no more of
\* them than Start, Text, Comment and ProcInst events.
C9_BlockIsBumpAllocated ==
    /\ \A a, b \in Closed :
        a # b =>
            \/ nodes[a + 1].dstart + nodes[a + 1].dlen <= nodes[b + 1].dstart
            \/ nodes[b + 1].dstart + nodes[b + 1].dlen <= nodes[a + 1].dstart
    /\ \A a \in Closed : Down(a) = DownsOf(nodes, a)
    /\ \A j \in 1..Len(downs) : (downs[j] # Nil) <=> (j <= downCount)
    /\ downCount <= Cardinality({ i \in Indices : KindOf(i) \in Eligible })

C9_Witness ==
    /\ pc = "build"
    /\ \E a, b \in Closed : a # b /\ nodes[a + 1].dlen > 0 /\ nodes[b + 1].dlen > 0
    /\ \E c \in Starts \ Closed : \E d \in Closed : nodes[d + 1].up = c

C5_Witness ==
    /\ Built
    /\ \E i \in Starts :
        /\ i # 0
        /\ Len(Down(i)) >= 1
        /\ \E j \in Range(i) : KindOf(j) = AttrNode
    /\ Len(Down(0)) >= 2

\* the events of the subtree of doc[i] in pre-order: an Element is a Start,
\* its attributes, its children and an End; a Text or a Comment is one event;
\* a Document is its children alone
Event(kind, data) == [kind |-> kind, data |-> data]

RECURSIVE PreOrder(_), PreOrderOf(_)
PreOrderOf(kids) ==
    IF kids = {} THEN <<>>
    ELSE PreOrder(Min(kids)) \o PreOrderOf(kids \ {Min(kids)})
PreOrder(i) ==
    LET inner == PreOrderOf({ j \in 1..Len(doc) : doc[j].Parent = i })
    IN  IF doc[i].Type = "Element"
        THEN <<Event(StartNode, <<>>)>>
                \o [k \in 1..Len(doc[i].Attr) |-> Event(AttrNode, doc[i].Attr[k])]
                \o inner
                \o <<Event(EndNode, <<>>)>>
        ELSE IF doc[i].Type = "Text" THEN <<Event(TextNode, doc[i].Data)>> \o inner
        ELSE IF doc[i].Type = "Comment" THEN <<Event(CommentNode, doc[i].Data)>> \o inner
        ELSE inner

\* the events in the node store
Events ==
    [k \in 1..Len(nodes) |->
        Event(nodes[k].kind,
              IF nodes[k].kind = AttrNode THEN nodes[k].attr ELSE TextOf(k - 1))]

WalkOver == pc \in {"build", "done"}

\* C10: the walk of ParseHTML ends, and the events it leaves in the store are
\* the root Start, the pre-order events of the document, and the root End;
\* the forward pass then closes every element and returns the root.
C10_WalkEmitsPreOrder ==
    /\ <>(pc = "done")
    /\ [](WalkOver =>
            Events = <<Event(StartNode, <<>>)>> \o PreOrder(1) \o <<Event(EndNode, <<>>)>>)
    /\ [](pc = "done" =>
            /\ result = "ok" /\ root = 0 /\ stack = <<>>
            /\ nodes[1].end = Len(nodes) - 1
            /\ Starts = Closed)

\* an Element with attributes, and an Element with a child that is followed
\* by a sibling
C10_Witness ==
    /\ pc = "done" /\ result = "ok"
    /\ doc # <<>>
    /\ \E i \in 1..Len(doc) : doc[i].Type = "Element" /\ doc[i].Attr # <<>>
    /\ \E i \in 1..Len(doc) :
        /\ doc[i].Type = "Element"
        /\ doc[i].FirstChild # Nil
        /\ doc[i].NextSibling # Nil

====
